---- MODULE Spec2Model ----
(***************************************************************************)
(* Model of MRCEyeTracking.calibrate (src/mrc_eyetracker.py, lines         *)
(* 246-330): the calibration wizard that polls the device status and the   *)
(* keyboard in a draw loop and starts/stops the gaze stream and the        *)
(* calibration mode of the device.                                         *)
(*                                                                         *)
(* Line 271 of the source reads `while calibration_message` without the    *)
(* trailing colon; the model reads it as the loop header it is meant to be.*)
(*                                                                         *)
(* Every local variable of calibrate() is a function of the caller, so     *)
(* that one model covers one invocation (Spec) and overlapping ones.       *)
(* Coordinates that the source divides by two are kept doubled (half-pixel *)
(* units) so that odd screen heights stay exact.                           *)
(***************************************************************************)
EXTENDS Integers, Sequences, FiniteSets, TLC

\* ---------------------------------------------------------------- bounds
MaxFlips == 4                      \* frames rendered in one calibrate() call
MaxRaceFlips == 2                  \* frames rendered by two overlapping calls

\* ------------------------------------------------------ program constants
NotConnected == -1                 \* status tested at entry
Calibrated == 2                    \* status that ends the collecting loop
calibration_points == 9            \* default argument
distance_to_screen == 130          \* default argument
PixelSizeMicrons == 333            \* default pixel_size 0.333 mm, in microns
BorderCorrection == 8              \* the -8 of x_displace
y_displace == -30

\* -------------------------------------------------------------- inputs
Callers == {1, 2}
StatusValues == {-1, 0, 1, 2}      \* values eye_get_status may report
Keys == {"q", "escape", "space", "5"}
\* <<screen_width, screen_height>> passed by the caller
ScreenGeometries == {<<1920, 1080>>, <<1365, 801>>, <<1079, 1080>>}
\* (index, x, y) values eye_get_calibration_point may report
DevicePoints == {<<1, 540, 540>>, <<2, 0, 1080>>, <<3, 100, 30>>}

VARIABLES
    pc,                  \* position of each call in calibrate()
    args,                \* [screen_width, screen_height, flipped] of each call
    calibration,         \* local of calibrate()
    calibration_message, \* local: "unbound", "True" or "False"
    repeat_calibration,  \* local
    calibration_running, \* local
    repeat_message,      \* local
    point,               \* local: last calibration point read
    device,              \* the device session: stream, calibration mode,
                         \* display configuration and the log of control calls
    present,             \* per call: draw and flip calls issued, last stimulus
    printed,             \* per call: last message printed
    status,              \* per call: <<value>> of the last eye_get_status()
    keys,                \* per call: keys seen by the last frame's getKeys
    entryStatus,         \* per call: <<status>> read by line 249 (<<>> before)
    abortIn,             \* per call: prompt in which q/escape was first polled
    abortMark,           \* per call: length of the device log at that poll
    spaceInIntro,        \* per call: space was accepted by the intro loop
    repeatEntries,       \* per call: times the repeat prompt was entered
    startsAtRepeat,      \* per call: start_stream calls logged at the last entry
    fives,               \* per call: 5 key presses accepted by the repeat prompt
    loopEnd              \* per call: how the collecting loop of the current pass
                         \* ended: "none", "skipped" (not started), "running",
                         \* "calibrated" or "aborted"

vars == <<pc, args, calibration, calibration_message, repeat_calibration,
          calibration_running, repeat_message, point, device, present,
          printed, status, keys, entryStatus, abortIn, abortMark,
          spaceInIntro, repeatEntries, startsAtRepeat, fives, loopEnd>>

locals == <<calibration, calibration_message, repeat_calibration,
            calibration_running, repeat_message, point>>

ghosts == <<abortIn, abortMark, spaceInIntro, repeatEntries, startsAtRepeat>>

\* ------------------------------------------------------- device wrappers
Logged(d, c, name) == [d EXCEPT !.log = Append(@, <<c, name>>)]

eye_set_display_parameter(d, c, width, height, distance, pixelsize) ==
    [Logged(d, c, "eye_set_display_parameter") EXCEPT
        !.display = <<width, height, distance, pixelsize>>]

eye_set_display_offset(d, c, width_offset, height_offset) ==
    [Logged(d, c, "eye_set_display_offset") EXCEPT
        !.offset = <<width_offset, height_offset>>]

eye_start_stream(d, c) ==
    [Logged(d, c, "eye_start_stream") EXCEPT !.stream = TRUE]

eye_start_calibrate(d, c, points) ==
    [Logged(d, c, "eye_start_calibrate") EXCEPT !.calibrating = TRUE]

eye_stop_calibration(d, c) ==
    [Logged(d, c, "eye_stop_calibration") EXCEPT !.calibrating = FALSE]

eye_stop_stream(d, c) ==
    [Logged(d, c, "eye_stop_stream") EXCEPT !.stream = FALSE]

\* number of calls of `name` that call c has issued
Count(log, c, name) ==
    Cardinality({i \in 1..Len(log) : log[i] = <<c, name>>})

\* ------------------------------------------------- pieces of calibrate()
\* int() of a value given doubled: truncation toward zero
TruncHalf(t) == IF t >= 0 THEN t \div 2 ELSE -((-t) \div 2)

tracking_groesse(c) == args[c].screen_height
vertical_groesse(c) == tracking_groesse(c)
x_displace_Floor(c) ==
    ((args[c].screen_width - vertical_groesse(c)) - 2 * BorderCorrection) \div 2

x_displace(c) ==
    TruncHalf((args[c].screen_width - vertical_groesse(c)) - 2 * BorderCorrection)

\* lines 265-266: the display configuration
ConfigureDisplay(d, c) ==
    eye_set_display_offset(
        eye_set_display_parameter(d, c, vertical_groesse(c), tracking_groesse(c),
                                  distance_to_screen, PixelSizeMicrons),
        c, x_displace(c), y_displace)

DeviceReady_Always(s) == TRUE

\* line 249: the device is connected
DeviceReady(s) == s # NotConnected

NeedsStart_IgnoresRepeat(s, repeat) == s # Calibrated

\* line 286: the condition under which the stream and calibration are started
NeedsStart(s, repeat) == s # Calibrated \/ repeat

CollectingDone_AnyPositive(s) == s > 0

\* line 303: the status that ends the collecting loop
CollectingDone(s) == s = Calibrated

StartCalibration_NoStream(d, c) == eye_start_calibrate(d, c, calibration_points)

\* lines 287-288
StartCalibration(d, c) ==
    eye_start_calibrate(eye_start_stream(d, c), c, calibration_points)

AbortCollecting_LeavesStream(d, c) == eye_stop_calibration(d, c)

\* lines 299-300: abort while collecting
AbortCollecting(d, c) == eye_stop_stream(eye_stop_calibration(d, c), c)

FinishCollecting_StreamFirst(d, c) == eye_stop_calibration(eye_stop_stream(d, c), c)

FinishCollecting_LeavesStream(d, c) == eye_stop_calibration(d, c)

\* lines 305-307: the device reported Calibrated while collecting
FinishCollecting(d, c) == eye_stop_stream(eye_stop_calibration(d, c), c)

LeaveRepeatPrompt_NoStopCalibration(d, c) == eye_stop_stream(d, c)

\* lines 319-320: q, escape or space in the repeat prompt
LeaveRepeatPrompt(d, c) == eye_stop_stream(eye_stop_calibration(d, c), c)

DotPos_NoYInversion(p, size) == <<2 * p[2] - size, 2 * p[3] - size>>

\* line 309: pos of the dot, doubled: (point[1]-size/2, size/2-point[2])
DotPos(p, size) == <<2 * p[2] - size, size - 2 * p[3]>>

\* lines 281-282, 310-311, 327-328: stimulus.draw(); win.flip()
DrawAndFlip(pr, stim) ==
    [draws |-> pr.draws + 1, flips |-> pr.flips + 1, last |-> stim]

ContinueKeys_With5 == {"space", "5"}

RepeatCancelKeys_NoSpace == {"q", "escape"}

\* keyList of lines 272 and 296, of line 273, of line 316 and of line 317
CancelKeys == {"q", "escape"}
ContinueKeys == {"space"}
RepeatCancelKeys == {"q", "escape", "space"}
RepeatKeys == {"5"}

\* ------------------------------------------------------------------ Init
InitDevice ==
    [stream |-> FALSE, calibrating |-> FALSE, display |-> <<>>,
     offset |-> <<>>, log |-> <<>>]

DefaultArgs == [screen_width |-> 1920, screen_height |-> 1080, flipped |-> TRUE]

InitCommon ==
    /\ calibration = [c \in Callers |-> FALSE]
    /\ calibration_message = [c \in Callers |-> "unbound"]
    /\ repeat_calibration = [c \in Callers |-> FALSE]
    /\ calibration_running = [c \in Callers |-> FALSE]
    /\ repeat_message = [c \in Callers |-> FALSE]
    /\ point = [c \in Callers |-> <<0, 0, 0>>]
    /\ device = InitDevice
    /\ present = [c \in Callers |-> [draws |-> 0, flips |-> 0, last |-> <<"none">>]]
    /\ printed = [c \in Callers |-> ""]
    /\ status = [c \in Callers |-> <<>>]
    /\ keys = [c \in Callers |-> {}]
    /\ entryStatus = [c \in Callers |-> <<>>]
    /\ abortIn = [c \in Callers |-> "none"]
    /\ abortMark = [c \in Callers |-> 0]
    /\ spaceInIntro = [c \in Callers |-> FALSE]
    /\ repeatEntries = [c \in Callers |-> 0]
    /\ startsAtRepeat = [c \in Callers |-> 0]
    /\ fives = [c \in Callers |-> 0]
    /\ loopEnd = [c \in Callers |-> "none"]

\* one call of calibrate() by caller 1; caller 2 never calls
Init ==
    /\ InitCommon
    /\ pc = [c \in Callers |-> IF c = 1 THEN "entry" ELSE "idle"]
    /\ \E g \in ScreenGeometries, f \in BOOLEAN :
          args = [c \in Callers |->
                    IF c = 1 THEN [screen_width |-> g[1], screen_height |-> g[2],
                                   flipped |-> f]
                    ELSE DefaultArgs]

\* --------------------------------------------------------------- actions
\* Entry with a reentrancy guard the source does not have
Entry_Guarded(c) ==
    /\ pc[c] = "entry"
    /\ \A d \in Callers \ {c} : pc[d] \in {"idle", "entry", "done", "raised"}
    /\ \E s \in StatusValues :
          /\ status' = [status EXCEPT ![c] = <<s>>]
          /\ entryStatus' = [entryStatus EXCEPT ![c] = <<s>>]
          /\ IF DeviceReady(s)
             THEN /\ pc' = [pc EXCEPT ![c] = "setup"]
                  /\ UNCHANGED printed
             ELSE /\ pc' = [pc EXCEPT ![c] = "done"]
                  /\ printed' = [printed EXCEPT ![c] = "error. Eyetracker not connected?"]
    /\ UNCHANGED <<args, locals, device, present, keys, ghosts, fives, loopEnd>>

\* line 249 and the else branch, lines 329-330
Entry(c) ==
    /\ pc[c] = "entry"
    /\ \E s \in StatusValues :
          /\ status' = [status EXCEPT ![c] = <<s>>]
          /\ entryStatus' = [entryStatus EXCEPT ![c] = <<s>>]
          /\ IF DeviceReady(s)
             THEN /\ pc' = [pc EXCEPT ![c] = "setup"]
                  /\ UNCHANGED printed
             ELSE /\ pc' = [pc EXCEPT ![c] = "done"]
                  /\ printed' = [printed EXCEPT ![c] = "error. Eyetracker not connected?"]
    /\ UNCHANGED <<args, locals, device, present, keys, ghosts, fives, loopEnd>>

\* lines 250-271: locals, display configuration, second status poll,
\* clearEvents and the first test of `while calibration_message`
Setup(c) ==
    /\ pc[c] = "setup"
    /\ calibration' = [calibration EXCEPT ![c] = TRUE]
    /\ repeat_calibration' = [repeat_calibration EXCEPT ![c] = FALSE]
    /\ device' = ConfigureDisplay(device, c)
    /\ \E s \in StatusValues :
          /\ status' = [status EXCEPT ![c] = <<s>>]
          /\ IF s # Calibrated
             THEN /\ calibration_message' = [calibration_message EXCEPT ![c] = "True"]
                  /\ pc' = [pc EXCEPT ![c] = "intro"]
                  /\ UNCHANGED printed
             ELSE \* calibration_message is read unassigned: UnboundLocalError
                  /\ UNCHANGED calibration_message
                  /\ pc' = [pc EXCEPT ![c] = "raised"]
                  /\ printed' = [printed EXCEPT ![c] = "UnboundLocalError"]
    /\ keys' = [keys EXCEPT ![c] = {}]
    /\ UNCHANGED <<args, calibration_running, repeat_message, point, present,
                   entryStatus, ghosts, fives, loopEnd>>

IntroCancel_KeepsCalibration(c) ==
    /\ calibration_message' = [calibration_message EXCEPT ![c] = "False"]
    /\ pc' = [pc EXCEPT ![c] = "calib_loop"]
    /\ abortIn' = [abortIn EXCEPT ![c] = "IntroPrompt"]
    /\ abortMark' = [abortMark EXCEPT ![c] = Len(device.log)]
    /\ UNCHANGED <<calibration, present, printed, spaceInIntro>>

\* lines 274-277: q or escape in the intro loop
IntroCancel(c) ==
    /\ calibration' = [calibration EXCEPT ![c] = FALSE]
    /\ calibration_message' = [calibration_message EXCEPT ![c] = "False"]
    /\ pc' = [pc EXCEPT ![c] = "calib_loop"]
    /\ abortIn' = [abortIn EXCEPT ![c] = "IntroPrompt"]
    /\ abortMark' = [abortMark EXCEPT ![c] = Len(device.log)]
    /\ UNCHANGED <<present, printed, spaceInIntro>>

\* lines 278-282: the rest of a pass of the intro loop, k the keys pressed
IntroShow(c, k) ==
    /\ present[c].flips < MaxFlips
    /\ present' = [present EXCEPT ![c] =
           DrawAndFlip(@, <<"calibration_Text", args[c].flipped>>)]
    /\ UNCHANGED <<calibration, abortIn, abortMark>>
    /\ IF k \cap ContinueKeys # {}
       THEN /\ printed' = [printed EXCEPT ![c] = "starting calibration"]
            /\ calibration_message' = [calibration_message EXCEPT ![c] = "False"]
            /\ spaceInIntro' = [spaceInIntro EXCEPT ![c] = "space" \in k]
            /\ pc' = [pc EXCEPT ![c] = "calib_loop"]
       ELSE /\ UNCHANGED <<printed, calibration_message, spaceInIntro, pc>>

\* lines 271-282: one pass of the intro loop
IntroFrame(c) ==
    /\ pc[c] = "intro"
    /\ calibration_message[c] = "True"
    /\ \E k \in SUBSET Keys :
          /\ keys' = [keys EXCEPT ![c] = k]
          /\ IF k \cap CancelKeys # {} THEN IntroCancel(c) ELSE IntroShow(c, k)
    /\ UNCHANGED <<args, repeat_calibration, calibration_running, repeat_message,
                   point, device, status, entryStatus, repeatEntries, startsAtRepeat,
                   fives, loopEnd>>

\* lines 283-293: the test of `while calibration` and the head of one pass
\* of the calibration loop
LoopTop(c) ==
    /\ pc[c] = "calib_loop"
    /\ IF ~calibration[c]
       THEN \* the loop ends and calibrate() returns
            /\ pc' = [pc EXCEPT ![c] = "done"]
            /\ UNCHANGED <<calibration_running, repeat_calibration, device,
                           status, keys, point, loopEnd>>
       ELSE \E s \in StatusValues :
            /\ status' = [status EXCEPT ![c] = <<s>>]
            /\ IF NeedsStart(s, repeat_calibration[c])
               THEN /\ device' = StartCalibration(device, c)
                    /\ calibration_running' = [calibration_running EXCEPT ![c] = TRUE]
                    /\ repeat_calibration' = [repeat_calibration EXCEPT ![c] = FALSE]
                    /\ pc' = [pc EXCEPT ![c] = "collect"]
                    /\ loopEnd' = [loopEnd EXCEPT ![c] = "running"]
               ELSE /\ calibration_running' = [calibration_running EXCEPT ![c] = FALSE]
                    /\ pc' = [pc EXCEPT ![c] = "percheck"]
                    /\ loopEnd' = [loopEnd EXCEPT ![c] = "skipped"]
                    /\ UNCHANGED <<device, repeat_calibration>>
            /\ point' = [point EXCEPT ![c] = <<0, 0, 0>>]
            /\ keys' = [keys EXCEPT ![c] = {}]
    /\ UNCHANGED <<args, calibration, calibration_message, repeat_message,
                   present, printed, entryStatus, ghosts, fives>>

\* lines 295-311: one pass of the collecting loop
CollectFrame(c) ==
    /\ pc[c] = "collect"
    /\ calibration_running[c]
    /\ \E k \in SUBSET Keys :
          LET cancel_key == k \cap CancelKeys
          IN  /\ keys' = [keys EXCEPT ![c] = k]
              /\ IF cancel_key # {}
                 THEN /\ printed' = [printed EXCEPT ![c] = "Calibration aborted"]
                      /\ device' = AbortCollecting(device, c)
                      /\ calibration' = [calibration EXCEPT ![c] = FALSE]
                      /\ pc' = [pc EXCEPT ![c] = "percheck"]
                      /\ loopEnd' = [loopEnd EXCEPT ![c] = "aborted"]
                      /\ IF abortIn[c] = "none"
                         THEN /\ abortIn' = [abortIn EXCEPT ![c] = "CollectingPoint"]
                              /\ abortMark' = [abortMark EXCEPT ![c] = Len(device.log)]
                         ELSE UNCHANGED <<abortIn, abortMark>>
                      /\ UNCHANGED <<calibration_running, status, point, present>>
                 ELSE /\ present[c].flips < MaxFlips
                      /\ \E s \in StatusValues, p \in DevicePoints :
                            /\ status' = [status EXCEPT ![c] = <<s>>]
                            /\ IF CollectingDone(s)
                               THEN /\ printed' = [printed EXCEPT ![c] = "calibration done"]
                                    /\ device' = FinishCollecting(device, c)
                                    /\ calibration_running' =
                                          [calibration_running EXCEPT ![c] = FALSE]
                                    /\ pc' = [pc EXCEPT ![c] = "percheck"]
                                    /\ loopEnd' = [loopEnd EXCEPT ![c] = "calibrated"]
                               ELSE UNCHANGED <<printed, device, calibration_running, pc,
                                                loopEnd>>
                            /\ point' = [point EXCEPT ![c] = p]
                            /\ present' = [present EXCEPT ![c] =
                                  DrawAndFlip(@, <<"dot", DotPos(p, tracking_groesse(c))>>)]
                      /\ UNCHANGED <<calibration, abortIn, abortMark>>
    /\ UNCHANGED <<args, calibration_message, repeat_calibration, repeat_message,
                   entryStatus, spaceInIntro, repeatEntries, startsAtRepeat, fives>>

\* lines 312-315: the status test after the collecting loop, and the first
\* test of `while repeat_message and not repeat_calibration`
PerPointCheck(c) ==
    /\ pc[c] = "percheck"
    /\ \E s \in StatusValues :
          /\ status' = [status EXCEPT ![c] = <<s>>]
          /\ IF s = Calibrated
             THEN /\ keys' = [keys EXCEPT ![c] = {}]
                  /\ repeat_message' = [repeat_message EXCEPT ![c] = TRUE]
                  /\ IF ~repeat_calibration[c]
                     THEN /\ pc' = [pc EXCEPT ![c] = "repeat"]
                          /\ repeatEntries' = [repeatEntries EXCEPT ![c] = @ + 1]
                          /\ startsAtRepeat' = [startsAtRepeat EXCEPT ![c] =
                                Count(device.log, c, "eye_start_stream")]
                     ELSE /\ pc' = [pc EXCEPT ![c] = "calib_loop"]
                          /\ UNCHANGED <<repeatEntries, startsAtRepeat>>
             ELSE /\ pc' = [pc EXCEPT ![c] = "calib_loop"]
                  /\ UNCHANGED <<keys, repeat_message, repeatEntries, startsAtRepeat>>
    /\ UNCHANGED <<args, calibration, calibration_message, repeat_calibration,
                   calibration_running, point, device, present, printed,
                   entryStatus, abortIn, abortMark, spaceInIntro, fives, loopEnd>>

\* lines 315-328: one pass of the repeat-prompt loop
RepeatFrame(c) ==
    /\ pc[c] = "repeat"
    /\ repeat_message[c] /\ ~repeat_calibration[c]
    /\ \E k \in SUBSET Keys :
          LET cancel_key == k \cap RepeatCancelKeys
              repeat_key == k \cap RepeatKeys
          IN  /\ keys' = [keys EXCEPT ![c] = k]
              /\ IF k \cap CancelKeys # {} /\ abortIn[c] = "none"
                 THEN /\ abortIn' = [abortIn EXCEPT ![c] = "RepeatPrompt"]
                      /\ abortMark' = [abortMark EXCEPT ![c] = Len(device.log)]
                 ELSE UNCHANGED <<abortIn, abortMark>>
              /\ IF cancel_key # {}
                 THEN /\ device' = LeaveRepeatPrompt(device, c)
                      /\ calibration' = [calibration EXCEPT ![c] = FALSE]
                      /\ repeat_message' = [repeat_message EXCEPT ![c] = FALSE]
                      /\ pc' = [pc EXCEPT ![c] = "calib_loop"]
                      /\ UNCHANGED <<repeat_calibration, present, printed, fives>>
                 ELSE /\ present[c].flips < MaxFlips
                      /\ present' = [present EXCEPT ![c] =
                             DrawAndFlip(@, <<"repeat_Text", args[c].flipped>>)]
                      /\ UNCHANGED <<device, calibration, repeat_message>>
                      /\ IF repeat_key # {}
                         THEN /\ printed' = [printed EXCEPT ![c] = "repeating calibration"]
                              /\ repeat_calibration' = [repeat_calibration EXCEPT ![c] = TRUE]
                              /\ fives' = [fives EXCEPT ![c] = @ + 1]
                              /\ pc' = [pc EXCEPT ![c] = "calib_loop"]
                         ELSE UNCHANGED <<printed, repeat_calibration, pc, fives>>
    /\ UNCHANGED <<args, calibration_message, calibration_running, point, status,
                   entryStatus, spaceInIntro, repeatEntries, startsAtRepeat, loopEnd>>

Next ==
    \E c \in Callers :
        \/ Entry(c)
        \/ Setup(c)
        \/ IntroFrame(c)
        \/ LoopTop(c)
        \/ CollectFrame(c)
        \/ PerPointCheck(c)
        \/ RepeatFrame(c)

Spec == Init /\ [][Next]_vars

\* two calls of calibrate() on the same device, overlapping (the source has
\* no lock and no reentrancy check); their steps interleave frame by frame
InitRace ==
    /\ InitCommon
    /\ pc = [c \in Callers |-> "entry"]
    /\ args = [c \in Callers |-> DefaultArgs]

\* the inputs explored for overlapping calls: one key at a time, a status
\* that is Calibrated or not, one calibration point
RaceKeySets == {{}, {"q"}, {"space"}, {"5"}}
RaceStatusValues == {0, 2}
RacePoints == {<<0, 0, 0>>, <<1, 540, 540>>}

TotalFlips == present[1].flips + present[2].flips

RaceInputs ==
    /\ TotalFlips <= MaxRaceFlips
    /\ \A c \in Callers :
          /\ keys[c] \in RaceKeySets
          /\ status[c] \in {<<>>} \cup {<<v>> : v \in RaceStatusValues}
          /\ point[c] \in RacePoints

RaceEntry(c) == Entry(c) /\ RaceInputs'
RaceSetup(c) == Setup(c) /\ RaceInputs'
RaceIntroFrame(c) == IntroFrame(c) /\ RaceInputs'
RaceLoopTop(c) == LoopTop(c) /\ RaceInputs'
RaceCollectFrame(c) == CollectFrame(c) /\ RaceInputs'
RacePerPointCheck(c) == PerPointCheck(c) /\ RaceInputs'
RaceRepeatFrame(c) == RepeatFrame(c) /\ RaceInputs'

NextRace ==
    \E c \in Callers :
        \/ RaceEntry(c)
        \/ RaceSetup(c)
        \/ RaceIntroFrame(c)
        \/ RaceLoopTop(c)
        \/ RaceCollectFrame(c)
        \/ RacePerPointCheck(c)
        \/ RaceRepeatFrame(c)

SpecRace == InitRace /\ [][NextRace]_vars

\* --------------------------------------------------------- type invariant
TypeOK ==
    /\ pc \in [Callers -> {"idle", "entry", "setup", "intro", "calib_loop",
                           "collect", "percheck", "repeat", "done", "raised"}]
    /\ calibration \in [Callers -> BOOLEAN]
    /\ calibration_message \in [Callers -> {"unbound", "True", "False"}]
    /\ repeat_calibration \in [Callers -> BOOLEAN]
    /\ calibration_running \in [Callers -> BOOLEAN]
    /\ repeat_message \in [Callers -> BOOLEAN]
    /\ device.stream \in BOOLEAN /\ device.calibrating \in BOOLEAN
    /\ \A c \in Callers : present[c].flips \in 0..MaxFlips

\* ------------------------------------------------------------ vocabulary
Returned(c) == pc[c] = "done"
Left(c) == pc[c] \in {"done", "raised"}
InCalibrationLoop(c) == pc[c] \in {"calib_loop", "collect", "percheck", "repeat"}
Starts(c) == Count(device.log, c, "eye_start_stream")
StartCalibrates(c) == Count(device.log, c, "eye_start_calibrate")
StopCalibrations(c) == Count(device.log, c, "eye_stop_calibration")
StopStreams(c) == Count(device.log, c, "eye_stop_stream")
\* a call of `name` by c is logged after position n of the log
CalledAfter(c, name, n) ==
    \E i \in 1..Len(device.log) : i > n /\ device.log[i] = <<c, name>>
ConfigCalls(c) ==
    <<<<c, "eye_set_display_parameter">>, <<c, "eye_set_display_offset">>>>
\* the step is one taken by call c
StepOf(c) == pc'[c] # pc[c] \/ present'[c] # present[c]

\* ----------------------------------------------------------------- claims

\* C1: when calibrate() has left (returned or raised) no stream is open, and
\* every start_stream it issued is followed in the device log by a
\* stop_stream, on the abort paths as well.
C1_NoStreamLeftOpen ==
    \A c \in Callers :
        Left(c) =>
            /\ ~device.stream
            /\ \A i \in 1..Len(device.log) :
                  device.log[i] = <<c, "eye_start_stream">>
                      => CalledAfter(c, "eye_stop_stream", i)

C1_Witness ==
    /\ Returned(1)
    /\ abortIn[1] = "CollectingPoint"
    /\ Starts(1) >= 1

\* C2: a call whose entry status poll read not-connected (-1) has ended at
\* once with the not-connected message, without a draw or flip and without
\* any display-configuration, stream or calibration call on the device.
C2_NotConnectedEndsAtOnce ==
    \A c \in Callers :
        entryStatus[c] = <<NotConnected>> =>
            /\ Returned(c)
            /\ printed[c] = "error. Eyetracker not connected?"
            /\ present[c].draws = 0 /\ present[c].flips = 0
            /\ device = InitDevice

C2_Witness == Returned(1) /\ entryStatus[1] = <<NotConnected>>

\* C3 as stated: whenever q or escape was polled in any prompt, both
\* stop_calibration and stop_stream were called after that poll and before
\* the return.
C3_Original ==
    \A c \in Callers :
        (Returned(c) /\ abortIn[c] # "none") =>
            /\ CalledAfter(c, "eye_stop_calibration", abortMark[c])
            /\ CalledAfter(c, "eye_stop_stream", abortMark[c])

\* C3 amended: once q or escape was polled in CollectingPoint or in
\* RepeatPrompt, stop_calibration and stop_stream have both been called after
\* that poll (and so before the return); a q or escape polled in IntroPrompt
\* is followed by no stop call at all.
C3_StopsAfterAbort ==
    \A c \in Callers :
        /\ abortIn[c] \in {"CollectingPoint", "RepeatPrompt"} =>
              /\ CalledAfter(c, "eye_stop_calibration", abortMark[c])
              /\ CalledAfter(c, "eye_stop_stream", abortMark[c])
        /\ abortIn[c] = "IntroPrompt" =>
              StopCalibrations(c) = 0 /\ StopStreams(c) = 0

C3_Witness ==
    /\ Returned(1)
    /\ abortIn[1] = "RepeatPrompt"
    /\ StopStreams(1) >= 2

\* C4: with a connected entry status and no q/escape polled so far, the
\* calibration loop is entered, and start_stream or start_calibrate issued,
\* only after space was polled in the intro loop.
C4_IntroLeftOnlyBySpace ==
    \A c \in Callers :
        ( /\ abortIn[c] = "none"
          /\ entryStatus[c] # <<NotConnected>>
          /\ \/ InCalibrationLoop(c)
             \/ Returned(c)
             \/ Starts(c) > 0
             \/ StartCalibrates(c) > 0 )
        => spaceInIntro[c]

C4_Witness ==
    /\ pc[1] = "collect"
    /\ abortIn[1] = "none"
    /\ spaceInIntro[1]
    /\ Starts(1) = 1

\* C5: after q or escape in the intro loop the call only returns: it has
\* issued no start_stream, start_calibrate, stop_calibration or stop_stream,
\* the device log holds the display configuration only, and no stream runs.
C5_IntroAbortMakesNoDeviceCall ==
    \A c \in Callers :
        abortIn[c] = "IntroPrompt" =>
            /\ pc[c] \in {"calib_loop", "done"}
            /\ ~calibration[c]
            /\ device.log = ConfigCalls(c)
            /\ ~device.stream /\ ~device.calibrating

C5_Witness == Returned(1) /\ abortIn[1] = "IntroPrompt"

\* C6: a pass of the calibration loop entered with the repeat flag set (the
\* flag is set only by a 5 accepted in the repeat prompt, which leads to that
\* pass) issues start_stream then start_calibrate and clears the flag,
\* whatever the status poll reads, Calibrated included; and a frame of the
\* repeat prompt that polls 5 without q, escape or space sets the flag and
\* leaves the prompt for the calibration loop.
C6_RepeatForcesRestart ==
    [][\A c \in Callers :
          /\ ( /\ pc[c] = "calib_loop" /\ calibration[c] /\ repeat_calibration[c]
               /\ StepOf(c) )
             => /\ device'.log = device.log \o <<<<c, "eye_start_stream">>,
                                                <<c, "eye_start_calibrate">>>>
                /\ device'.stream /\ device'.calibrating
                /\ ~repeat_calibration'[c]
                /\ pc'[c] = "collect"
          /\ ( /\ pc[c] = "repeat" /\ StepOf(c)
               /\ "5" \in keys'[c] /\ keys'[c] \cap RepeatCancelKeys = {} )
             => /\ repeat_calibration'[c]
                /\ pc'[c] = "calib_loop"
          /\ (repeat_calibration'[c] /\ ~repeat_calibration[c])
             => (pc[c] = "repeat" /\ "5" \in keys'[c])
      ]_vars

\* the restart happened although the status polled at the loop head was
\* Calibrated
C6_Witness ==
    /\ pc[1] = "collect"
    /\ status[1] = <<Calibrated>>
    /\ repeatEntries[1] >= 1
    /\ Starts(1) >= 1

\* C7: the repeat prompt is entered by the status test after the collecting
\* loop, exactly when that test reads Calibrated, and by nothing else (not by
\* the polls inside the collecting loop): it has been entered at most once
\* more than start_stream was issued, and between two entries a new
\* start_stream/start_calibrate is issued.
C7_RepeatPromptOncePerRun ==
    /\ [](\A c \in Callers : repeatEntries[c] <= Starts(c) + 1)
    /\ [][\A c \in Callers :
            /\ (pc'[c] = "repeat" /\ pc[c] # "repeat")
               => /\ pc[c] = "percheck"
                  /\ status'[c] = <<Calibrated>>
                  /\ repeatEntries'[c] = repeatEntries[c] + 1
            /\ (pc[c] = "percheck" /\ StepOf(c) /\ status'[c] = <<Calibrated>>)
               => pc'[c] = "repeat"
            /\ (repeatEntries'[c] > repeatEntries[c] /\ repeatEntries[c] >= 1)
               => /\ Starts(c) > startsAtRepeat[c]
                  /\ StartCalibrates(c) > startsAtRepeat[c]
         ]_vars

\* two collecting runs, each followed by one entry to the repeat prompt
C7_Witness ==
    /\ pc[1] = "repeat"
    /\ repeatEntries[1] = 2
    /\ Starts(1) = 2

\* C8: a frame of the collecting loop that polls neither q nor escape and
\* reads a status other than Calibrated renders one frame, makes no device
\* control call and stays in the collecting loop; a frame that polls q or
\* escape calls stop_calibration and stop_stream, and if the status still is
\* not Calibrated at the test after the loop, calibrate() returns.
C8_HangsUntilAbort ==
    [][\A c \in Callers :
          /\ ( /\ pc[c] = "collect" /\ StepOf(c)
               /\ keys'[c] \cap CancelKeys = {}
               /\ status'[c] # <<Calibrated>> )
             => /\ pc'[c] = "collect"
                /\ present'[c].flips = present[c].flips + 1
                /\ present'[c].draws = present[c].draws + 1
                /\ device' = device
                /\ calibration'[c]
          /\ ( /\ pc[c] = "collect" /\ StepOf(c)
               /\ keys'[c] \cap CancelKeys # {} )
             => /\ device'.log = device.log \o <<<<c, "eye_stop_calibration">>,
                                                <<c, "eye_stop_stream">>>>
                /\ ~device'.stream
                /\ ~calibration'[c]
                /\ pc'[c] = "percheck"
          /\ ( /\ pc[c] = "percheck" /\ StepOf(c) /\ ~calibration[c]
               /\ status'[c] # <<Calibrated>> )
             => pc'[c] = "calib_loop"
          /\ (pc[c] = "calib_loop" /\ StepOf(c) /\ ~calibration[c])
             => pc'[c] = "done"
      ]_vars

\* the device never reported Calibrated: frames were rendered, then the user
\* aborted and the call returned
C8_Witness ==
    /\ Returned(1)
    /\ abortIn[1] = "CollectingPoint"
    /\ repeatEntries[1] = 0
    /\ present[1].flips >= 3
    /\ Starts(1) = 1 /\ StopStreams(1) = 1

\* C9: every dot is drawn at x' = px - size/2, y' = size/2 - py (doubled
\* here) for the point (index, px, py) read in that frame and size the screen
\* height; with height 1080 the point (1, 540, 540) is drawn at (0, 0);
\* the flipped flag, which varies freely, plays no part.
C9_DotPosition ==
    [][\A c \in Callers :
          (present'[c] # present[c] /\ present'[c].last[1] = "dot") =>
              LET dot == present'[c].last[2]
                  size == args[c].screen_height
              IN  /\ dot[1] + size = 2 * point'[c][2]
                  /\ dot[2] + 2 * point'[c][3] = size
                  /\ point'[c] \in DevicePoints
                  /\ (size = 1080 /\ point'[c] = <<1, 540, 540>>) => dot = <<0, 0>>
      ]_vars

C9_Witness ==
    /\ args[1].screen_height = 1080
    /\ ~args[1].flipped
    /\ point[1] = <<1, 540, 540>>
    /\ present[1].last = <<"dot", <<0, 0>>>>

\* C10 as stated: once q or escape was polled in the collecting loop the
\* repeat prompt is never shown.
C10_AbortIsTerminal ==
    \A c \in Callers : abortIn[c] = "CollectingPoint" => pc[c] # "repeat"

\* C11 as stated: when the collecting loop has ended because the status was
\* read as Calibrated, the next state is the repeat prompt; control goes back
\* to the head of the calibration loop only when the loop did not end on
\* Calibrated.
C11_CalibratedLeadsToRepeatPrompt ==
    [][\A c \in Callers :
          (pc[c] = "percheck" /\ loopEnd[c] = "calibrated" /\ StepOf(c))
              => pc'[c] = "repeat"
      ]_vars

\* C12 as stated: start_stream and start_calibrate are each issued at most
\* once plus once per 5 accepted in the repeat prompt.
C12_NoAutomaticRetry ==
    \A c \in Callers :
        /\ Starts(c) <= 1 + fives[c]
        /\ StartCalibrates(c) <= 1 + fives[c]

\* C13: in the device log every start_calibrate directly follows a
\* start_stream of the same call and every start_stream is directly followed
\* by start_calibrate; the pair is issued by the head of a pass of the
\* calibration loop, exactly when the status polled there is not Calibrated
\* or the repeat flag is set; every stop_stream directly follows a
\* stop_calibration, which is thus issued after the last start.
C13_PairedOrder ==
    /\ [](\A c \in Callers : \A i \in 1..Len(device.log) :
            /\ device.log[i] = <<c, "eye_start_calibrate">>
                  => (i > 1 /\ device.log[i - 1] = <<c, "eye_start_stream">>)
            /\ device.log[i] = <<c, "eye_start_stream">>
                  => (i < Len(device.log)
                      /\ device.log[i + 1] = <<c, "eye_start_calibrate">>)
            /\ device.log[i] = <<c, "eye_stop_stream">>
                  => (i > 1 /\ device.log[i - 1] = <<c, "eye_stop_calibration">>))
    /\ [][\A c \in Callers :
            /\ (pc[c] = "calib_loop" /\ calibration[c] /\ StepOf(c))
               => ( (Count(device'.log, c, "eye_start_calibrate") = StartCalibrates(c) + 1)
                    <=> (status'[c] # <<Calibrated>> \/ repeat_calibration[c]) )
            /\ (Count(device'.log, c, "eye_start_calibrate") # StartCalibrates(c))
               => (pc[c] = "calib_loop" /\ calibration[c])
         ]_vars

\* started, finished on Calibrated, then the repeat prompt left: two
\* stop pairs after one start pair
C13_Witness ==
    /\ Returned(1)
    /\ device.log = ConfigCalls(1) \o
          <<<<1, "eye_start_stream">>, <<1, "eye_start_calibrate">>,
            <<1, "eye_stop_calibration">>, <<1, "eye_stop_stream">>,
            <<1, "eye_stop_calibration">>, <<1, "eye_stop_stream">>>>

\* C14: a frame of the repeat prompt that polls q, escape or space calls
\* stop_calibration then stop_stream and ends the loops; the state it leaves
\* is a function of the state before it alone, the same whichever of the
\* three keys was polled and whether or not 5 was polled with it (no repeat
\* is recorded); the call then returns without another device call.
C14_RepeatPromptExit ==
    [][\A c \in Callers :
          /\ ( /\ pc[c] = "repeat" /\ StepOf(c)
               /\ keys'[c] \cap {"q", "escape", "space"} # {} )
             => /\ device' = [device EXCEPT
                       !.log = @ \o <<<<c, "eye_stop_calibration">>,
                                      <<c, "eye_stop_stream">>>>,
                       !.stream = FALSE, !.calibrating = FALSE]
                /\ pc'[c] = "calib_loop"
                /\ calibration'[c] = FALSE
                /\ repeat_message'[c] = FALSE
                /\ repeat_calibration'[c] = FALSE
                /\ fives'[c] = fives[c]
                /\ calibration_running'[c] = calibration_running[c]
                /\ calibration_message'[c] = calibration_message[c]
                /\ point'[c] = point[c]
                /\ present'[c] = present[c]
                /\ printed'[c] = printed[c]
          /\ (pc[c] = "calib_loop" /\ ~calibration[c] /\ StepOf(c))
             => (pc'[c] = "done" /\ device' = device)
      ]_vars

\* space polled together with 5: the call has returned, no repeat
C14_Witness ==
    /\ Returned(1)
    /\ keys[1] = {"space", "5"}
    /\ abortIn[1] = "none"
    /\ repeatEntries[1] = 1
    /\ fives[1] = 0

\* C15: once a connected call is past its set-up (so before any prompt is
\* drawn and before any start_stream) its first two device calls are the
\* display configuration: width = height = screen height, and the offset is
\* x = (screen_width - screen_height)/2 - 8 truncated toward zero, y = -30;
\* 1920x1080 gives (412, -30).
C15_DisplayConfiguration ==
    \A c \in Callers :
        ( \/ pc[c] \in {"intro", "calib_loop", "collect", "percheck", "repeat", "raised"}
          \/ present[c].draws > 0
          \/ Starts(c) > 0 )
        => LET w == args[c].screen_width
               h == args[c].screen_height
               v == (w - h) - 16          \* twice the value int() is applied to
               x == device.offset[1]
           IN  /\ Len(device.log) >= 2
               /\ device.log[1] = <<c, "eye_set_display_parameter">>
               /\ device.log[2] = <<c, "eye_set_display_offset">>
               /\ device.display[1] = h /\ device.display[2] = h
               /\ device.offset[2] = -30
               /\ v >= 0 => (2 * x <= v /\ v < 2 * x + 2)
               /\ v <= 0 => (2 * x >= v /\ v > 2 * x - 2)
               /\ (w = 1920 /\ h = 1080) => device.offset = <<412, -30>>

C15_Witness ==
    /\ args[1].screen_width = 1920 /\ args[1].screen_height = 1080
    /\ present[1].draws >= 1
    /\ Starts(1) >= 1
    /\ device.display = <<1080, 1080, 130, 333>>
    /\ device.offset = <<412, -30>>

\* C17 as stated: a call entered while the device reports Calibrated raises
\* no unhandled error: calibration_message is assigned before the intro loop
\* tests it.
C17_NoUnhandledError ==
    \A c \in Callers :
        /\ pc[c] # "raised"
        /\ pc[c] \in {"intro", "calib_loop", "collect", "percheck", "repeat", "done"}
              => (entryStatus[c] = <<NotConnected>> \/ calibration_message[c] # "unbound")

\* C18 as stated: stop_stream is never issued more often than start_stream,
\* and at the end each start_stream is matched by exactly one stop_stream.
C18_Original ==
    \A c \in Callers :
        /\ StopStreams(c) <= Starts(c)
        /\ StopCalibrations(c) <= StartCalibrates(c)
        /\ Left(c) => StopStreams(c) = Starts(c)

\* C18 amended: in the collecting loop stop_calibration and stop_stream are
\* issued only while the stream started by this call is open; when the repeat
\* prompt is left by q, escape or space they are issued once more, with the
\* stream already stopped or never started.  Hence every start_stream has
\* been followed by a stop_stream when the call has left, and stop_stream is
\* issued at most once more than start_stream.
C18_StopsMatchStarts ==
    /\ [](\A c \in Callers :
            /\ StopStreams(c) <= Starts(c) + 1
            /\ StopCalibrations(c) = StopStreams(c)
            /\ Left(c) => Starts(c) <= StopStreams(c)
            /\ (StopStreams(c) > Starts(c)) => (~calibration[c] /\ repeatEntries[c] >= 1))
    /\ [][\A c \in Callers :
            (Count(device'.log, c, "eye_stop_stream") # StopStreams(c)) =>
                /\ Count(device'.log, c, "eye_stop_stream") = StopStreams(c) + 1
                /\ \/ pc[c] = "collect" /\ device.stream /\ device.calibrating
                      /\ StopStreams(c) = Starts(c) - 1
                   \/ pc[c] = "repeat" /\ ~device.stream /\ ~device.calibrating
                      /\ StopStreams(c) = Starts(c)
         ]_vars

\* the loop head read Calibrated, so nothing was started, and the repeat
\* prompt was left by space: one stop pair without any start
C18_Witness ==
    /\ Returned(1)
    /\ Starts(1) = 0
    /\ StopStreams(1) = 1
    /\ keys[1] = {"space"}

\* C16: no reentrancy check: a call at its entry is never held back by what
\* another call is doing; and when a step of another call issues stop_stream
\* while this call is in the collecting loop with its stream open, the shared
\* stream is stopped and this call stays in the collecting loop with
\* calibration_running still set.
C16_NoReentrancyCheck ==
    /\ [](\A c \in Callers : pc[c] = "entry" => ENABLED Entry(c))
    /\ [][\A c \in Callers : \A d \in Callers \ {c} :
            ( /\ pc[c] = "collect" /\ calibration_running[c] /\ device.stream
              /\ Count(device'.log, d, "eye_stop_stream") > StopStreams(d) )
            => /\ ~device'.stream
               /\ pc'[c] = "collect"
               /\ calibration_running'[c]
               /\ calibration'[c]
         ]_vars

\* call 1 is collecting, its stream was stopped by call 2
C16_Witness ==
    /\ pc[1] = "collect" /\ calibration_running[1] /\ calibration[1]
    /\ ~device.stream
    /\ StopStreams(1) = 0 /\ Starts(1) = 1
    /\ device.log[Len(device.log)] = <<2, "eye_stop_stream">>

====
